---- MODULE Spec2Model ----
(***************************************************************************)
(* Doogie: document ingestion (document_processor/processor.py), hybrid    *)
(* retrieval (rag/retriever.py) and the streaming response assembler       *)
(* (core/chat_engine.py).                                                  *)
(*                                                                         *)
(* Strings are sequences of one-character strings.  Relevance scores are   *)
(* integers counting twentieths (0.05), so that the mean of two scores     *)
(* that are multiples of 0.1 is exact.                                     *)
(***************************************************************************)
EXTENDS Integers, Sequences, FiniteSets, TLC

VARIABLES
    \* ---- ingestion (processor.py, routes/documents.py)
    documents,        \* documents table: id -> row, or NoDoc
    document_chunks,  \* document_chunks table: sequence of rows, in insertion order
    tasks,            \* process_document invocations: id -> frame
    \* ---- streaming assembler (chat_engine.py)
    stream,
    \* ---- retrieval (retriever.py)
    retr,
    \* ---- chunker (processor.py chunk_text)
    chk,
    \* ---- chat exchanges (routes/chats.py, chat_engine.py process_message)
    chat

vars == <<documents, document_chunks, tasks, stream, retr, chk, chat>>

\* ------------------------------------------------------------------------
\* Bounds
\* ------------------------------------------------------------------------
MaxTasks == 3
MaxPieces == 3
MaxIncrements == 3
MaxHits == 2

\* ------------------------------------------------------------------------
\* Python string primitives over sequences of characters
\* ------------------------------------------------------------------------
Range(s) == {s[i] : i \in 1..Len(s)}

\* s[i:] with a 1-based start
Drop(s, n) == IF n >= Len(s) THEN <<>> ELSE SubSeq(s, n + 1, Len(s))

\* s[:n]
Take(s, n) == IF n >= Len(s) THEN s ELSE SubSeq(s, 1, n)

\* s.startswith(p, i-1)
StartsWithAt(s, p, i) ==
    /\ i + Len(p) - 1 <= Len(s)
    /\ \A k \in 1..Len(p) : s[i + k - 1] = p[k]

\* p in s
Contains(s, p) == \E i \in 1..(Len(s) + 1) : StartsWithAt(s, p, i)

RECURSIVE RemoveAll(_, _)
\* s.replace(p, ""): non-overlapping occurrences, scanned left to right
RemoveAll(s, p) ==
    IF Len(s) = 0 THEN <<>>
    ELSE IF StartsWithAt(s, p, 1) THEN RemoveAll(Drop(s, Len(p)), p)
    ELSE <<s[1]>> \o RemoveAll(Drop(s, 1), p)

\* s.endswith(p)
EndsWith(s, p) == Len(p) <= Len(s) /\ StartsWithAt(s, p, Len(s) - Len(p) + 1)

RECURSIVE SplitAcc(_, _, _)
SplitAcc(s, sep, cur) ==
    IF Len(s) = 0 THEN <<cur>>
    ELSE IF StartsWithAt(s, sep, 1) THEN <<cur>> \o SplitAcc(Drop(s, Len(sep)), sep, <<>>)
    ELSE SplitAcc(Drop(s, 1), sep, Append(cur, s[1]))

\* s.split(sep), sep non-empty: Len = occurrences + 1, empty pieces kept
Split(s, sep) == SplitAcc(s, sep, <<>>)

RECURSIVE Split1From(_, _, _)
Split1From(s, sep, i) ==
    IF i > Len(s) THEN <<s>>
    ELSE IF StartsWithAt(s, sep, i) THEN <<Take(s, i - 1), Drop(s, i - 1 + Len(sep))>>
    ELSE Split1From(s, sep, i + 1)

\* s.split(sep, 1)
Split1(s, sep) == Split1From(s, sep, 1)

\* str.isspace() of one character
IsSpace(c) == c \in {" ", "\n", "\t"}

RECURSIVE WordsAcc(_, _)
WordsAcc(s, cur) ==
    IF Len(s) = 0 THEN (IF Len(cur) = 0 THEN <<>> ELSE <<cur>>)
    ELSE IF IsSpace(s[1])
         THEN (IF Len(cur) = 0 THEN <<>> ELSE <<cur>>) \o WordsAcc(Drop(s, 1), <<>>)
         ELSE WordsAcc(Drop(s, 1), Append(cur, s[1]))

\* s.split(): split on runs of whitespace, no empty words
Words(s) == WordsAcc(s, <<>>)

RECURSIVE Join(_, _)
\* sep.join(ws)
Join(ws, sep) ==
    IF Len(ws) = 0 THEN <<>>
    ELSE IF Len(ws) = 1 THEN ws[1]
    ELSE ws[1] \o sep \o Join(Tail(ws), sep)

RECURSIVE Concat(_)
\* "".join(ss)
Concat(ss) == IF Len(ss) = 0 THEN <<>> ELSE ss[1] \o Concat(Tail(ss))

\* ws[-n:] for n > 0
LastN(ws, n) == IF n >= Len(ws) THEN ws ELSE SubSeq(ws, Len(ws) - n + 1, Len(ws))

Min(a, b) == IF a < b THEN a ELSE b

NL2 == <<"\n", "\n">>
SP == <<" ">>

\* ------------------------------------------------------------------------
\* Chunker (processor.py chunk_text and its strategies)
\* ------------------------------------------------------------------------

\* the seed of a new chunk: the trailing overlap // 5 words of the closed one
SeedOfWords(words, overlap_words) ==
    IF overlap_words > 0 THEN Join(LastN(words, overlap_words), SP) ELSE <<>>

SeedOf(words, overlap) == SeedOfWords(words, Min(Len(words), overlap \div 5))

OverlapSeed(current, overlap) == SeedOf(Words(current), overlap)

RECURSIVE SentencesAcc(_, _)
\* re.split(r'(?<=[.!?])\s+', text): a separator is a whole run of
\* whitespace whose preceding character is one of . ! ?
SentencesAcc(s, cur) ==
    IF Len(s) = 0 THEN <<cur>>
    ELSE IF /\ IsSpace(s[1])
            /\ Len(cur) > 0
            /\ cur[Len(cur)] \in {".", "!", "?"}
         THEN LET n == CHOOSE k \in 1..Len(s) :
                            /\ \A j \in 1..k : IsSpace(s[j])
                            /\ (k = Len(s) \/ ~IsSpace(s[k + 1]))
              IN <<cur>> \o SentencesAcc(Drop(s, n), <<>>)
         ELSE SentencesAcc(Drop(s, 1), Append(cur, s[1]))

SplitSentences(text) == SentencesAcc(text, <<>>)

RECURSIVE SentenceWords(_, _, _)
\* chunk_by_sentence lines 412-421: the word loop of an oversized sentence;
\* st = [chunks, current, csc] with csc the current_sentence_chunk
SentenceWords(words, st, chunk_size) ==
    IF Len(words) = 0 THEN st
    ELSE LET word == words[1]
             nx == IF Len(st.csc) + Len(word) + 1 > chunk_size
                   THEN [chunks |-> IF Len(st.current) > 0
                                    THEN Append(st.chunks, st.current)
                                    ELSE st.chunks,
                         current |-> st.csc,
                         csc |-> word]
                   ELSE [st EXCEPT !.csc = (IF Len(st.csc) > 0 THEN st.csc \o SP ELSE <<>>)
                                            \o word]
         IN SentenceWords(Tail(words), nx, chunk_size)

\* chunk_by_sentence lines 423-430: the remainder w.csc of an oversized
\* sentence joins the running chunk or closes it
AfterSentenceWords(w, chunk_size) ==
    IF Len(w.csc) > 0
    THEN IF Len(w.current) + Len(w.csc) > chunk_size
         THEN [chunks |-> Append(w.chunks, w.current), current |-> w.csc]
         ELSE [chunks |-> w.chunks,
               current |-> (IF Len(w.current) > 0 THEN w.current \o SP ELSE <<>>) \o w.csc]
    ELSE [chunks |-> w.chunks, current |-> w.current]

\* current_chunk += " " + piece, or piece alone when current_chunk is empty
SpaceJoin(cur, piece) == (IF Len(cur) > 0 THEN cur \o SP ELSE <<>>) \o piece

\* chunk_by_sentence lines 432-444: a sentence that fits chunk_size
AddSentence(st, sentence, closed, overlap) ==
    [chunks |-> IF closed THEN Append(st.chunks, st.current) ELSE st.chunks,
     current |-> SpaceJoin(IF closed THEN OverlapSeed(st.current, overlap) ELSE st.current,
                           sentence)]

\* chunk_by_sentence lines 408-444: the body of the loop for one sentence
SentenceStep(st, sentence, chunk_size, overlap) ==
    IF Len(sentence) > chunk_size
    THEN AfterSentenceWords(
             SentenceWords(Words(sentence),
                           [chunks |-> st.chunks, current |-> st.current, csc |-> <<>>],
                           chunk_size),
             chunk_size)
    ELSE AddSentence(st, sentence,
                     Len(st.current) + Len(sentence) + 1 > chunk_size /\ Len(st.current) > 0,
                     overlap)

RECURSIVE SentenceLoop(_, _, _, _)
\* chunk_by_sentence lines 406-444: st = [chunks, current]
SentenceLoop(sentences, st, chunk_size, overlap) ==
    IF Len(sentences) = 0 THEN st
    ELSE SentenceLoop(Tail(sentences),
                      SentenceStep(st, sentences[1], chunk_size, overlap),
                      chunk_size, overlap)

\* the closing "if current_chunk: chunks.append(current_chunk)" of a strategy
Flush(st) == IF Len(st.current) > 0 THEN Append(st.chunks, st.current) ELSE st.chunks

chunk_by_sentence(text, chunk_size, overlap) ==
    Flush(SentenceLoop(SplitSentences(text), [chunks |-> <<>>, current |-> <<>>],
                       chunk_size, overlap))

\* chunk_by_paragraph lines 353-368 and 371-386: append one unit (a sentence
\* chunk or a paragraph) to the running chunk, closing it first when the
\* unit does not fit
EnsureBreak(cur) == IF Len(cur) > 0 /\ ~EndsWith(cur, NL2) THEN cur \o NL2 ELSE cur

AddUnitClosed(st, unit, closed, overlap) ==
    [chunks |-> IF closed THEN Append(st.chunks, st.current) ELSE st.chunks,
     current |-> EnsureBreak(IF closed
                             THEN EnsureBreak(OverlapSeed(st.current, overlap))
                             ELSE st.current) \o unit]

AddUnit(st, unit, chunk_size, overlap) ==
    AddUnitClosed(st, unit,
                  Len(st.current) + Len(unit) > chunk_size /\ Len(st.current) > 0,
                  overlap)

RECURSIVE AddUnits(_, _, _, _)
AddUnits(units, st, chunk_size, overlap) ==
    IF Len(units) = 0 THEN st
    ELSE AddUnits(Tail(units), AddUnit(st, units[1], chunk_size, overlap), chunk_size, overlap)

RECURSIVE ParagraphLoop(_, _, _, _)
\* chunk_by_paragraph lines 348-386
ParagraphLoop(paragraphs, st, chunk_size, overlap) ==
    IF Len(paragraphs) = 0 THEN st
    ELSE ParagraphLoop(Tail(paragraphs),
                       AddUnits(IF Len(paragraphs[1]) > chunk_size
                                THEN chunk_by_sentence(paragraphs[1], chunk_size, overlap)
                                ELSE <<paragraphs[1]>>,
                                st, chunk_size, overlap),
                       chunk_size, overlap)

chunk_by_paragraph(text, chunk_size, overlap) ==
    Flush(ParagraphLoop(Split(text, NL2), [chunks |-> <<>>, current |-> <<>>],
                        chunk_size, overlap))

\* position p is where (?m)^ matches
LineStart(s, p) == p = 1 \/ (p > 1 /\ p <= Len(s) + 1 /\ s[p - 1] = "\n")

\* index of the last character of the line that holds position q
LineEnd(s, q) == CHOOSE e \in q..Len(s) :
                    /\ \A j \in q..e : s[j] # "\n"
                    /\ (e = Len(s) \/ s[e + 1] = "\n")

\* number of leading characters of s[p..] that satisfy the test
RunLen(s, p, Test(_)) ==
    IF p > Len(s) THEN 0
    ELSE CHOOSE n \in 0..(Len(s) - p + 1) :
            /\ \A j \in 0..(n - 1) : Test(s[p + j])
            /\ (p + n > Len(s) \/ ~Test(s[p + n]))

IsHash(c) == c = "#"
IsUnderline(c) == c \in {"=", "-", "~"}
NotNewline(c) == c # "\n"

\* ^#{1,6}\s+.+$ tried at p: index of the last matched character, 0 if no
\* match.  \s+ is greedy and gives whitespace back until .+ finds a
\* character of its own on a line
MatchMdHeading(s, p) ==
    LET h == RunLen(s, p, IsHash)
        q == p + h
        ws == RunLen(s, q, IsSpace)
        ok == {w \in 1..ws : q + w <= Len(s) /\ s[q + w] # "\n"}
    IN IF h < 1 \/ h > 6 \/ ok = {} THEN 0
       ELSE LET w == CHOOSE x \in ok : \A y \in ok : y <= x
            IN LineEnd(s, q + w)

\* ^[^\n]+\n[=\-~]+$ tried at p
MatchRstHeading(s, p) ==
    LET l1 == RunLen(s, p, NotNewline)
        n == p + l1
        u == RunLen(s, n + 1, IsUnderline)
    IN IF /\ l1 >= 1
          /\ n <= Len(s)
          /\ u >= 1
          /\ (n + u = Len(s) \/ (n + u < Len(s) /\ s[n + u + 1] = "\n"))
       THEN n + u
       ELSE 0

\* (?m)^((md|rst)) tried at p: the first alternative that matches wins
FirstMatch(md, rst) == IF md # 0 THEN md ELSE rst

MatchHeading(s, p) ==
    IF ~LineStart(s, p) \/ p > Len(s) THEN 0
    ELSE FirstMatch(MatchMdHeading(s, p), MatchRstHeading(s, p))

RECURSIVE HeadingSplit(_, _, _)
RECURSIVE HeadingSplitAt(_, _, _, _)
\* re.split with the pattern above: it has two capturing groups (the one
\* written in re.split and the one of heading_pattern), so every match
\* contributes its text twice between the pieces around it
HeadingSplit(s, p, from) ==
    IF p > Len(s) THEN <<SubSeq(s, from, Len(s))>>
    ELSE HeadingSplitAt(s, p, from, MatchHeading(s, p))

HeadingSplitAt(s, p, from, e) ==
    IF e = 0 THEN HeadingSplit(s, p + 1, from)
    ELSE <<SubSeq(s, from, p - 1), SubSeq(s, p, e), SubSeq(s, p, e)>>
         \o HeadingSplit(s, e + 1, e + 1)

RECURSIVE PairSections(_, _)
\* chunk_by_heading lines 468-473: for i in range(0, len(sections), 2)
PairSections(sections, i) ==
    IF i > Len(sections) THEN <<>>
    ELSE IF i + 1 <= Len(sections)
         THEN <<sections[i] \o sections[i + 1]>> \o PairSections(sections, i + 2)
         ELSE <<sections[i]>>

RECURSIVE HeadingSections(_, _, _)
\* chunk_by_heading lines 476-483
HeadingSections(secs, chunk_size, overlap) ==
    IF Len(secs) = 0 THEN <<>>
    ELSE (IF Len(secs[1]) <= chunk_size THEN <<secs[1]>>
          ELSE chunk_by_paragraph(secs[1], chunk_size, overlap))
         \o HeadingSections(Tail(secs), chunk_size, overlap)

chunk_by_heading(text, chunk_size, overlap) ==
    HeadingSections(PairSections(HeadingSplit(text, 1, 1), 1), chunk_size, overlap)

PageMark == <<"-", "-", "-", " ", "P", "a", "g", "e", " ">>
PageMarkEnd == <<" ", "-", "-", "-">>

\* chunk_by_page_then_paragraph lines 494-522, for one page
\* lines 515-517: the page header goes in front of the page's first chunk
WithHeader(page_header, page_chunks) ==
    IF Len(page_chunks) > 0 /\ Len(page_header) > 0
    THEN <<page_header \o page_chunks[1]>> \o Tail(page_chunks)
    ELSE page_chunks

\* lines 508-519
PageContentChunks(page_header, page_content, chunk_size, overlap) ==
    IF Len(page_content) <= chunk_size
    THEN <<page_header \o page_content>>
    ELSE WithHeader(page_header, chunk_by_paragraph(page_content, chunk_size, overlap))

\* lines 499-506
PageOfParts(page, page_parts, chunk_size, overlap) ==
    IF Len(page_parts) > 1
    THEN PageContentChunks(PageMark \o page_parts[1] \o PageMarkEnd, page_parts[2],
                           chunk_size, overlap)
    ELSE PageContentChunks(<<>>, page, chunk_size, overlap)

PageChunks(page, chunk_size, overlap) ==
    IF Len(page) = 0 THEN <<>>
    ELSE PageOfParts(page, Split1(page, PageMarkEnd), chunk_size, overlap)

RECURSIVE PagesLoop(_, _, _)
PagesLoop(pages, chunk_size, overlap) ==
    IF Len(pages) = 0 THEN <<>>
    ELSE PageChunks(pages[1], chunk_size, overlap) \o PagesLoop(Tail(pages), chunk_size, overlap)

chunk_by_page_then_paragraph(text, chunk_size, overlap) ==
    PagesLoop(Split(text, PageMark), chunk_size, overlap)

\* chunk_text without the short-text return of lines 327-328
chunk_text_always_split(text, doc_type, chunk_size, overlap) ==
    IF doc_type \in {"md", "rst"} THEN chunk_by_heading(text, chunk_size, overlap)
    ELSE IF doc_type = "pdf" THEN chunk_by_page_then_paragraph(text, chunk_size, overlap)
    ELSE chunk_by_paragraph(text, chunk_size, overlap)

\* chunk_text lines 326-337
chunk_text(text, doc_type, chunk_size, overlap) ==
    IF Len(text) <= chunk_size THEN <<text>>
    ELSE IF doc_type \in {"md", "rst"} THEN chunk_by_heading(text, chunk_size, overlap)
    ELSE IF doc_type = "pdf" THEN chunk_by_page_then_paragraph(text, chunk_size, overlap)
    ELSE chunk_by_paragraph(text, chunk_size, overlap)

\* chunk_text defaults (processor.py line 313), used by process_document
DefaultChunkSize == 1000
DefaultOverlap == 200

\* ------------------------------------------------------------------------
\* Ingestion: documents, chunks, process_document
\* ------------------------------------------------------------------------
DocIds == {"d1", "d2"}

NoDoc == [status |-> "absent"]

\* DocumentType members, plus a declared type outside the enumeration
\* (the members exercised; the others dispatch the same way in process_document)
SupportedTypes == {"txt", "html"}
DocTypes == SupportedTypes \cup {"unsupported"}

DocumentSource == {"upload", "website"}

\* file_path column and the state of the file it names
FileStates == {"none", "present", "missing"}

\* texts a parser can return for a readable document
FileTexts == {<<"a", " ", "b">>}

\* str(e) of the exceptions process_document can catch; "" is no error
FileNotFound == "Document file not found"
UnboundLocal == "cannot access local variable 'chunk_text'"

\* extract_text line 138 / line 133: placeholder texts
ErrorText == <<"E", "r", "r">>
UnknownTypeText == <<"U", "n", "k">>

IdleTask == [pc |-> "idle", doc |-> "none", ret |-> "none", text |-> <<>>,
             extracted |-> "none"]

TaskIds == 1..MaxTasks

\* the first frame not yet used
FreeTask(t) == /\ t \in TaskIds
               /\ tasks[t].pc = "idle"
               /\ \A u \in TaskIds : u < t => tasks[u].pc # "idle"

InitIdleStream == stream = [pc |-> "off"]
InitIdleRetr == retr = [pc |-> "off"]
InitIdleChk == chk = [pc |-> "off"]
InitIdleChat == chat = [pc |-> "off"]
IdleIngest == /\ documents = [d \in DocIds |-> NoDoc]
              /\ document_chunks = <<>>
              /\ tasks = [t \in TaskIds |-> IdleTask]

Init ==
    /\ documents = [d \in DocIds |-> NoDoc]
    /\ document_chunks = <<>>
    /\ tasks = [t \in TaskIds |-> IdleTask]
    /\ InitIdleStream /\ InitIdleRetr /\ InitIdleChk /\ InitIdleChat

\* create_document: the row is inserted PENDING and process_document is
\* scheduled as a background task on the event loop
create_document(d, ty, src, fs, t) ==
    /\ documents[d] = NoDoc
    /\ FreeTask(t)
    /\ documents' = [documents EXCEPT ![d] =
            [status |-> "pending", doc_type |-> ty, source |-> src,
             file |-> fs, error |-> ""]]
    /\ tasks' = [tasks EXCEPT ![t] = [IdleTask EXCEPT !.pc = "scheduled", !.doc = d]]
    /\ UNCHANGED <<document_chunks, stream, retr, chk, chat>>

\* process_document entered without the PROCESSING mark of lines 32-33
BeginProcessNoMark(t, d) ==
    IF documents[d] = NoDoc
    THEN /\ tasks' = [tasks EXCEPT ![t] = [IdleTask EXCEPT !.pc = "done", !.doc = d, !.ret = "False"]]
         /\ UNCHANGED documents
    ELSE /\ UNCHANGED documents
         /\ tasks' = [tasks EXCEPT ![t] = [IdleTask EXCEPT !.pc = "extract", !.doc = d]]

\* process_document lines 26-33: look the document up; mark it PROCESSING
\* and commit; the frame then waits on extract_text
BeginProcess(t, d) ==
    IF documents[d] = NoDoc
    THEN /\ tasks' = [tasks EXCEPT ![t] = [IdleTask EXCEPT !.pc = "done", !.doc = d, !.ret = "False"]]
         /\ UNCHANGED documents
    ELSE /\ documents' = [documents EXCEPT ![d].status = "processing"]
         /\ tasks' = [tasks EXCEPT ![t] = [IdleTask EXCEPT !.pc = "extract", !.doc = d]]

\* the background task created by create_document starts running
RunScheduled(t) ==
    /\ t \in TaskIds
    /\ tasks[t].pc = "scheduled"
    /\ BeginProcess(t, tasks[t].doc)
    /\ UNCHANGED <<document_chunks, stream, retr, chk, chat>>

\* routes/documents.py process_document_api: 404 unless the document
\* exists, otherwise process_document is awaited
process_document_api(t, d) ==
    /\ FreeTask(t)
    /\ documents[d] # NoDoc
    /\ BeginProcess(t, d)
    /\ UNCHANGED <<document_chunks, stream, retr, chk, chat>>

\* process_document called for an id that has no row
process_document_missing(t, d) ==
    /\ FreeTask(t)
    /\ documents[d] = NoDoc
    /\ BeginProcess(t, d)
    /\ UNCHANGED <<document_chunks, stream, retr, chk, chat>>

\* extract_text lines 104-107: the existence check runs before the try
SourceMissing(doc) ==
    /\ doc.source \in {"upload", "github"}
    /\ doc.file # "none"
    /\ doc.file = "missing"

\* extract_text lines 109-138: outcomes for a document that passed the
\* existence check.  parse is the outcome of the type-specific parser
\* ("ok" with the text it read, or "fails"); an undeclared type takes the
\* else branch and returns a message, and a parser exception is caught and
\* returned as a message
extract_text(doc, parse, txt) ==
    IF doc.doc_type \notin SupportedTypes THEN UnknownTypeText
    ELSE IF parse = "fails" THEN ErrorText
    ELSE txt

\* how the extraction ended, as the document's ingestion sees it
ExtractKind(doc, parse) ==
    IF doc.doc_type \notin SupportedTypes THEN "unknown_type"
    ELSE IF parse = "fails" THEN "parser_error"
    ELSE "text"

\* process_document line 39: chunk_text is the loop target of line 45 and
\* therefore a local name of process_document; line 39 reads it before any
\* assignment, so the call raises UnboundLocalError whatever the text is.
\* Lines 41-74 (the chunk loop and the COMPLETED mark) are never reached.
ChunkTextCall(text, doc_type) == [raises |-> UnboundLocal]

\* the except handler without the error bookkeeping of lines 79-80
HandlerNoError(doc, e) == [doc EXCEPT !.status = "failed"]

\* process_document lines 76-83: the except handler
Handler(doc, e) == [doc EXCEPT !.status = "failed", !.error = e]

\* a failure that leaves the row as the run found it
FailDocumentNone(docs, d, e) == docs

\* the handler writing to every row of the table
FailDocumentAll(docs, d, e) ==
    [x \in DocIds |-> IF docs[x] = NoDoc THEN NoDoc ELSE Handler(docs[x], e)]

\* process_document lines 76-83: the handler writes to the row that the
\* failed run looked up at line 25, and to no other
FailDocument(docs, d, e) == [docs EXCEPT ![d] = Handler(docs[d], e)]

\* process_document lines 36-83 after the await on extract_text returns
\* (or raises): the chunking call, and the handler.  A parser cannot read
\* a file that is not there
FinishProcess(t, parse, txt) ==
    /\ t \in TaskIds
    /\ tasks[t].pc = "extract"
    /\ documents[tasks[t].doc].file = "missing" => parse = "fails"
    /\ LET d == tasks[t].doc
           doc == documents[d]
       IN IF SourceMissing(doc)
          THEN /\ documents' = FailDocument(documents, d, FileNotFound)
               /\ tasks' = [tasks EXCEPT ![t].pc = "done", ![t].ret = "False",
                                         ![t].extracted = "source_missing"]
          ELSE LET text == extract_text(doc, parse, txt)
                   call == ChunkTextCall(text, doc.doc_type)
               IN /\ documents' = FailDocument(documents, d, call.raises)
                  /\ tasks' = [tasks EXCEPT ![t].pc = "done", ![t].ret = "False",
                                            ![t].text = text,
                                            ![t].extracted = ExtractKind(doc, parse)]
    /\ UNCHANGED <<document_chunks, stream, retr, chk, chat>>

\* the only await of process_document that suspends is the HTTP GET of
\* extract_text_from_html (line 266), taken for an html document without a
\* file
Suspended(doc) == doc.doc_type = "html" /\ doc.file = "none"

\* the task is cancelled while it is suspended there (the event loop is
\* shut down, or Task.cancel()): CancelledError is a BaseException, none of
\* the three `except Exception` on its way catches it, and the frame is
\* left without the handler having run
CancelTask(t) ==
    /\ t \in TaskIds
    /\ tasks[t].pc = "extract"
    /\ Suspended(documents[tasks[t].doc])
    /\ tasks' = [tasks EXCEPT ![t].pc = "cancelled"]
    /\ UNCHANGED <<documents, document_chunks, stream, retr, chk, chat>>

CreateDocument == \E d \in DocIds, ty \in DocTypes, src \in DocumentSource,
                     fs \in FileStates, t \in TaskIds :
                        create_document(d, ty, src, fs, t)
RunBackground == \E t \in TaskIds : RunScheduled(t)
ProcessApi == \E t \in TaskIds, d \in DocIds : process_document_api(t, d)
ProcessMissing == \E t \in TaskIds, d \in DocIds : process_document_missing(t, d)
Finish == \E t \in TaskIds, parse \in {"ok", "fails"}, txt \in FileTexts :
              FinishProcess(t, parse, txt)

Cancel == \E t \in TaskIds : CancelTask(t)

Next == CreateDocument \/ RunBackground \/ ProcessApi \/ ProcessMissing \/ Finish
        \/ Cancel

Spec == Init /\ [][Next]_vars

\* the chunk rows a document owns, in insertion order
ChunksOf(d) == SelectSeq(document_chunks, LAMBDA row : row.document_id = d)

\* the rows one successful run over the text would leave: one per chunker
\* output string, in chunker order
RowsOfOneRun(rows, text, doc_type) ==
    LET cs == chunk_text(text, doc_type, DefaultChunkSize, DefaultOverlap)
    IN /\ Len(rows) = Len(cs)
       /\ \A i \in 1..Len(rows) :
            /\ rows[i].content = cs[i]
            /\ rows[i].chunk_index = i - 1
            /\ rows[i].position = i - 1
            /\ rows[i].total_chunks = Len(cs)
            /\ rows[i].embedding_file # "null"

\* C5: in every reachable state a COMPLETED document owns no chunk with a
\* null embedding_file.  No behaviour of Spec reaches a COMPLETED document
\* (ChunkTextCall raises on every run), so the invariant has no instance.
C5_CompletedHasEmbeddings ==
    \A d \in DocIds :
        documents[d].status = "completed" =>
            \A i \in 1..Len(ChunksOf(d)) : ChunksOf(d)[i].embedding_file # "null"

C7_ReingestReplaces ==
    \A d \in DocIds :
        LET runs == {t \in TaskIds : tasks[t].doc = d /\ tasks[t].pc = "done"
                                     /\ tasks[t].extracted # "source_missing"}
            busy == {t \in TaskIds : tasks[t].doc = d /\ tasks[t].pc \in {"scheduled", "extract"}}
        IN (documents[d] # NoDoc /\ Cardinality(runs) >= 2 /\ busy = {})
           => \E t \in runs :
                LET n == Len(chunk_text(tasks[t].text, documents[d].doc_type,
                                        DefaultChunkSize, DefaultOverlap))
                IN /\ Len(ChunksOf(d)) = n
                   /\ \A k \in 0..(n - 1) :
                        Cardinality({i \in 1..Len(ChunksOf(d)) :
                                        ChunksOf(d)[i].chunk_index = k}) = 1

\* C8 (as claimed): for a document of a supported type whose extraction
\* succeeded, process_document returns True and leaves the document
\* COMPLETED with one chunk row per chunker output string, in order,
\* chunk_index = position = 0-based rank, total_chunks = the count, each
\* with an embedding reference
C8_SuccessfulIngest ==
    [][\A t \in TaskIds :
          (/\ tasks[t].pc = "extract"
           /\ tasks'[t].pc = "done"
           /\ documents[tasks[t].doc].doc_type \in SupportedTypes
           /\ tasks'[t].extracted = "text")
          => /\ tasks'[t].ret = "True"
             /\ documents'[tasks[t].doc].status = "completed"
             /\ RowsOfOneRun(ChunksOf(tasks[t].doc)', tasks'[t].text,
                             documents[tasks[t].doc].doc_type)]_vars

StatusChanges == {<<"absent", "pending">>, <<"pending", "processing">>,
                  <<"processing", "completed">>, <<"processing", "failed">>}

\* C9 (as claimed): a document is created PENDING and every status change
\* is pending->processing, processing->completed or processing->failed
C9_Lifecycle ==
    [][\A d \in DocIds :
          documents'[d].status # documents[d].status
          => <<documents[d].status, documents'[d].status>> \in StatusChanges]_vars

\* C9 (amended): a document is created PENDING and every status change is a
\* change to processing at the start of a run (from pending, or from failed
\* or completed when the document is processed again), processing->completed
\* or processing->failed
C9_LifecycleWithReprocess ==
    [][\A d \in DocIds :
          documents'[d].status # documents[d].status
          => <<documents[d].status, documents'[d].status>> \in
                StatusChanges \cup {<<"failed", "processing">>,
                                    <<"completed", "processing">>}]_vars

\* a failed document is being processed again
C9_Witness ==
    \E d \in DocIds : /\ documents[d] # NoDoc
                      /\ documents[d].status = "processing"
                      /\ documents[d].error # ""

\* the run of frame t returns in this step
Returns(t) == tasks[t].pc = "extract" /\ tasks'[t].pc = "done"

C24_ParserFailureDegrades ==
    \A t \in TaskIds :
        (tasks[t].pc = "done" /\ tasks[t].extracted = "parser_error") =>
            /\ tasks[t].text = ErrorText
            /\ \E i \in 1..Len(ChunksOf(tasks[t].doc)) :
                    ChunksOf(tasks[t].doc)[i].content = ErrorText

\* the event loop runs every task it holds, and every await of
\* process_document returns or raises
LiveSpec ==
    /\ Spec
    /\ \A t \in TaskIds :
          /\ WF_vars(RunScheduled(t))
          /\ WF_vars(\E parse \in {"ok", "fails"}, txt \in FileTexts :
                        FinishProcess(t, parse, txt))

\* C19: the failure of one document's ingestion leaves the rows and chunks
\* of every other document and the other runs as they are, and every run
\* that was started reaches its own end (it returns, unless its task is
\* cancelled)
C19_FailureIsolated ==
    /\ [][\A t \in TaskIds :
            (Returns(t) /\ documents'[tasks[t].doc].status = "failed")
            => /\ \A d \in DocIds \ {tasks[t].doc} : documents'[d] = documents[d]
               /\ document_chunks' = document_chunks
               /\ \A u \in TaskIds \ {t} : tasks'[u] = tasks[u]]_vars
    /\ \A t \in TaskIds :
          (tasks[t].pc \in {"scheduled", "extract"}) ~> (tasks[t].pc \in {"done", "cancelled"})

\* the call of frame t ends in this step, by returning or by cancellation
Ends(t) == tasks[t].pc = "extract" /\ tasks'[t].pc \in {"done", "cancelled"}

\* C27: every process_document call on an existing document ends, and when
\* it ends, however it ends, the document is COMPLETED or FAILED
C27_EndsCompletedOrFailed ==
    /\ [][\A t \in TaskIds :
            Ends(t) => documents'[tasks[t].doc].status \in {"completed", "failed"}]_vars
    /\ \A t \in TaskIds : (tasks[t].pc = "extract") ~> (tasks[t].pc = "done")

\* one document has failed while the ingestion of another one, started
\* before that failure, is still at its await
C19_Witness ==
    \E t, u \in TaskIds :
        /\ tasks[t].doc # tasks[u].doc
        /\ u < t
        /\ tasks[u].pc = "done"
        /\ documents[tasks[u].doc].status = "failed"
        /\ tasks[t].pc = "extract"
        /\ documents[tasks[t].doc].status = "processing"
        /\ documents[tasks[t].doc].error = ""

\* ------------------------------------------------------------------------
\* Streaming response assembler (chat_engine.py _stream_response)
\* ------------------------------------------------------------------------
OpenTag == <<"<", "t", "h", "i", "n", "k", ">">>
CloseTag == <<"<", "/", "t", "h", "i", "n", "k", ">">>

\* connector outputs of the shape <think>A</think>B, as <<A, B>>
ThinkThenAnswer == {<<(<<"x">>), (<<"y">>)>>, <<(<<"x", " ", "w">>), (<<"y">>)>>}

\* whole connector outputs
StreamTexts ==
    {OpenTag \o ab[1] \o CloseTag \o ab[2] : ab \in ThinkThenAnswer}
    \cup {<<"p">> \o OpenTag \o <<"x">> \o CloseTag \o <<"y">>,
          <<"y", " ", "z">>,
          OpenTag \o <<"x">>}

\* context_docs handed over by process_message
ContextDocs == {<<>>, <<[id |-> "c1", title |-> "T1"]>>}

None == "None"

InitStream ==
    /\ IdleIngest /\ InitIdleRetr /\ InitIdleChk /\ InitIdleChat
    /\ stream \in {[pc |-> "streaming",
                    full |-> f,                 \* the connector's whole output
                    rest |-> f,                 \* what it has not delivered yet
                    reports_tokens |-> r,       \* whether increments carry a token count
                    context_docs |-> c,
                    increments |-> 0,
                    thinking_buffer |-> <<>>,
                    content_buffer |-> <<>>,
                    in_thinking |-> FALSE,
                    tokens |-> 0,
                    events |-> <<>>] :
                        f \in StreamTexts, r \in BOOLEAN, c \in ContextDocs}

ThinkingEvent(buf) == [type |-> "thinking", thinking |-> buf]
ChunkEvent(text) == [type |-> "chunk", content |-> text]

\* _stream_response lines 133-162: one increment of the connector's stream
Consume(st, content, ntokens) ==
    LET open == Contains(content, OpenTag)
        text1 == IF open THEN RemoveAll(content, OpenTag) ELSE content
        close == Contains(text1, CloseTag)
        text2 == IF close THEN RemoveAll(text1, CloseTag) ELSE text1
        in_thinking == IF close THEN FALSE ELSE IF open THEN TRUE ELSE st.in_thinking
        ev1 == IF close THEN <<ThinkingEvent(st.thinking_buffer)>> ELSE <<>>
    IN IF in_thinking
       THEN [st EXCEPT !.tokens = @ + ntokens, !.in_thinking = in_thinking,
                       !.thinking_buffer = @ \o text2,
                       !.events = @ \o ev1 \o <<ThinkingEvent(st.thinking_buffer \o text2)>>]
       ELSE [st EXCEPT !.tokens = @ + ntokens, !.in_thinking = in_thinking,
                       !.content_buffer = @ \o text2,
                       !.events = @ \o ev1 \o <<ChunkEvent(text2)>>]

\* int(len(content_buffer.split()) * 1.3)
EstimateTokens(content) == (13 * Len(Words(content))) \div 10

\* a terminal event that never carries the thinking
CompleteEventNoThinking(st) ==
    [type |-> "complete",
     content |-> st.content_buffer,
     thinking |-> None,
     tokens |-> IF st.tokens = 0 THEN EstimateTokens(st.content_buffer) ELSE st.tokens,
     citations |-> IF Len(st.context_docs) > 0
                   THEN [i \in 1..Len(st.context_docs) |->
                            [id |-> st.context_docs[i].id, title |-> st.context_docs[i].title]]
                   ELSE None]

\* _stream_response lines 165-176: the terminal event
CompleteEvent(st) ==
    [type |-> "complete",
     content |-> st.content_buffer,
     thinking |-> IF Len(st.thinking_buffer) > 0 THEN st.thinking_buffer ELSE None,
     tokens |-> IF st.tokens = 0 THEN EstimateTokens(st.content_buffer) ELSE st.tokens,
     citations |-> IF Len(st.context_docs) > 0
                   THEN [i \in 1..Len(st.context_docs) |->
                            [id |-> st.context_docs[i].id, title |-> st.context_docs[i].title]]
                   ELSE None]

\* the connector yields its next increment: the next n characters of its
\* output (an increment may be empty); the last increment the bound allows
\* carries all that is left
StreamIncrement(n) ==
    /\ stream.pc = "streaming"
    /\ stream.increments < MaxIncrements
    /\ n \in 0..Len(stream.rest)
    /\ stream.increments = MaxIncrements - 1 => n = Len(stream.rest)
    /\ stream' = [Consume(stream, Take(stream.rest, n),
                          IF stream.reports_tokens THEN 1 ELSE 0)
                    EXCEPT !.rest = Drop(stream.rest, n), !.increments = @ + 1]
    /\ UNCHANGED <<documents, document_chunks, tasks, retr, chk, chat>>

\* the connector's stream is exhausted
StreamEnd ==
    /\ stream.pc = "streaming"
    /\ Len(stream.rest) = 0
    /\ stream' = [stream EXCEPT !.pc = "complete",
                                !.events = Append(@, CompleteEvent(stream))]
    /\ UNCHANGED <<documents, document_chunks, tasks, retr, chk, chat>>

Increment == \E n \in 0..20 : StreamIncrement(n)

NextStream == Increment \/ StreamEnd

SpecStream == InitStream /\ [][NextStream]_vars

\* C1 (as claimed): for connector output <think>A</think>B, however it is
\* cut into increments, a thinking event with text A comes before every
\* chunk event that contains B, and the complete event's content is exactly
\* B (so it excludes A)
C1_ThinkingBeforeAnswer ==
    \A ab \in ThinkThenAnswer :
        (stream.pc = "complete" /\ stream.full = OpenTag \o ab[1] \o CloseTag \o ab[2])
        => LET ev == stream.events
           IN /\ \E i \in 1..Len(ev) :
                    /\ ev[i].type = "thinking"
                    /\ ev[i].thinking = ab[1]
                    /\ \A j \in 1..Len(ev) :
                          (ev[j].type = "chunk" /\ Contains(ev[j].content, ab[2])) => i < j
              /\ ev[Len(ev)].type = "complete"
              /\ ev[Len(ev)].content = ab[2]

RECURSIVE SplitAtMarkers(_, _, _)
\* the reading of a whole connector output that C20 states: text between a
\* begin-marker and the next end-marker is thinking, the rest is answer
\* content, the markers belong to neither; acc = [content, thinking]
SplitAtMarkers(s, inside, acc) ==
    IF Len(s) = 0 THEN [acc EXCEPT !.balanced = ~inside]
    ELSE IF ~inside /\ StartsWithAt(s, OpenTag, 1)
         THEN SplitAtMarkers(Drop(s, Len(OpenTag)), TRUE, acc)
    ELSE IF inside /\ StartsWithAt(s, CloseTag, 1)
         THEN SplitAtMarkers(Drop(s, Len(CloseTag)), FALSE, acc)
    ELSE IF inside
         THEN SplitAtMarkers(Drop(s, 1), inside, [acc EXCEPT !.thinking = Append(@, s[1])])
    ELSE SplitAtMarkers(Drop(s, 1), inside, [acc EXCEPT !.content = Append(@, s[1])])

MarkerFree(text) == ~Contains(text, OpenTag) /\ ~Contains(text, CloseTag)

\* the text an event carries
EventText(e) ==
    IF e.type = "chunk" THEN e.content
    ELSE IF e.type = "thinking" THEN e.thinking
    ELSE e.content \o (IF e.thinking = None THEN <<>> ELSE e.thinking)

\* what a split at the markers gives for the whole output
Expected(full) ==
    SplitAtMarkers(full, FALSE, [content |-> <<>>, thinking |-> <<>>, balanced |-> TRUE])

\* the chunk events' texts, one after the other
ChunkTexts(ev) ==
    Concat([i \in 1..Len(ev) |-> IF ev[i].type = "chunk" THEN ev[i].content ELSE <<>>])

RECURSIVE Find(_, _, _)
\* s.find(pat, p-1) + 1: where pat first occurs at or after p, 0 if nowhere
Find(s, pat, p) ==
    IF p + Len(pat) - 1 > Len(s) THEN 0
    ELSE IF StartsWithAt(s, pat, p) THEN p
    ELSE Find(s, pat, p + 1)

\* where the end-marker of the begin-marker at o is, 0 if there is none
CloseOf(s, o) == IF o = 0 THEN 0 ELSE Find(s, CloseTag, o + Len(OpenTag))

RECURSIVE StripLeft(_)
StripLeft(s) == IF Len(s) > 0 /\ IsSpace(s[1]) THEN StripLeft(Tail(s)) ELSE s

RECURSIVE StripRight(_)
StripRight(s) ==
    IF Len(s) > 0 /\ IsSpace(s[Len(s)]) THEN StripRight(SubSeq(s, 1, Len(s) - 1)) ELSE s

\* str.strip()
Strip(s) == StripRight(StripLeft(s))

RECURSIVE RemoveBlocks(_)
\* re.sub(r'<think>.*?</think>', '', content, flags=re.DOTALL)
RemoveBlocksAt(s, o, c) ==
    IF c = 0 THEN s
    ELSE Take(s, o - 1) \o RemoveBlocks(Drop(s, c + Len(CloseTag) - 1))

RemoveBlocks(s) == RemoveBlocksAt(s, Find(s, OpenTag, 1), CloseOf(s, Find(s, OpenTag, 1)))

\* re.search(r'<think>(.*?)</think>', content, re.DOTALL).group(1).strip(),
\* None without a match
FirstThinking(s, o, c) ==
    IF c = 0 THEN None ELSE Strip(SubSeq(s, o + Len(OpenTag), c - 1))

\* _generate_response lines 97-105: the (content, thinking) it returns for
\* the connector's output
generate_response(content) ==
    [content |-> IF CloseOf(content, Find(content, OpenTag, 1)) = 0 THEN content
                 ELSE Strip(RemoveBlocks(content)),
     thinking |-> FirstThinking(content, Find(content, OpenTag, 1),
                                CloseOf(content, Find(content, OpenTag, 1)))]

\* equality of two values that are a text or None
SameText(a, b) == IF a = None THEN b = None ELSE IF b = None THEN FALSE ELSE a = b

\* C29: for one connector output, however it is cut into increments, the
\* content and thinking of the complete event of _stream_response are the
\* (answer, thinking) pair _generate_response returns for that output
C29_BatchStreamAgree ==
    stream.pc = "complete" =>
        /\ stream.events[Len(stream.events)].content = generate_response(stream.full).content
        /\ SameText(stream.events[Len(stream.events)].thinking,
                    generate_response(stream.full).thinking)

IsThinking(e) == e.type = "thinking"

IsPrefix(a, b) == Len(a) <= Len(b) /\ SubSeq(b, 1, Len(a)) = a

\* C28: in a streamed response the content of the complete event is the
\* chunk events' contents one after the other; each thinking event's text
\* extends that of the thinking event before it; and the thinking of the
\* complete event is the text of the last thinking event, or null when no
\* thinking text was accumulated
C28_CompleteSumsEvents ==
    stream.pc = "complete" =>
        /\ stream.events[Len(stream.events)].type = "complete"
        /\ stream.events[Len(stream.events)].content = ChunkTexts(stream.events)
        /\ \A i \in 1..(Len(SelectSeq(stream.events, IsThinking)) - 1) :
              IsPrefix(SelectSeq(stream.events, IsThinking)[i].thinking,
                       SelectSeq(stream.events, IsThinking)[i + 1].thinking)
        /\ IF \E i \in 1..Len(stream.events) :
                  IsThinking(stream.events[i]) /\ Len(stream.events[i].thinking) > 0
           THEN SelectSeq(stream.events, IsThinking)
                    [Len(SelectSeq(stream.events, IsThinking))].thinking =
                        stream.events[Len(stream.events)].thinking
           ELSE stream.events[Len(stream.events)].thinking = None

\* the thinking grew over two thinking events, answer text followed in a
\* chunk event, and the complete event carries both
C28_Witness ==
    /\ stream.pc = "complete"
    /\ \E i, j \in 1..Len(stream.events) :
          /\ i < j
          /\ IsThinking(stream.events[i]) /\ IsThinking(stream.events[j])
          /\ Len(stream.events[i].thinking) > 0
          /\ Len(stream.events[i].thinking) < Len(stream.events[j].thinking)
    /\ \E i \in 1..Len(stream.events) :
          stream.events[i].type = "chunk" /\ Len(stream.events[i].content) > 0
    /\ Len(stream.events[Len(stream.events)].content) > 0
    /\ stream.events[Len(stream.events)].thinking # None

\* C20: however the output is cut into increments, no event carries marker
\* text, and for an output whose begin-markers all have their end-marker
\* the chunk events carry exactly the text outside the markers, which is
\* also the final content, and the thinking is exactly the text between
\* them
C20_SplitAtMarker ==
    stream.pc = "complete" =>
        /\ \A i \in 1..Len(stream.events) : MarkerFree(EventText(stream.events[i]))
        /\ Expected(stream.full).balanced =>
              /\ ChunkTexts(stream.events) = Expected(stream.full).content
              /\ stream.events[Len(stream.events)].content = Expected(stream.full).content
              /\ stream.thinking_buffer = Expected(stream.full).thinking

\* ------------------------------------------------------------------------
\* Retrieval (retriever.py)
\* ------------------------------------------------------------------------
\* result identities: chunks known to the indexes, and the placeholders the
\* searches make up
ChunkIds == {<<"chunk", 1>>, <<"chunk", 2>>, <<"chunk", 3>>}

\* relevance scores in twentieths: 0.6 and 0.8
Scores == {12, 16}

Limits == {1, 2}

Hit(id, rel, src) == [id |-> id, relevance |-> rel, source |-> src, sources |-> None]

Ids(rs) == {rs[i].id : i \in 1..Len(rs)}

\* what an index search can answer for a limit: at most limit (and at most
\* MaxHits) hits with distinct identities, sorted by relevance descending
IndexAnswers(src, limit) ==
    {rs \in UNION {[1..n -> {Hit(id, rel, src) : id \in ChunkIds, rel \in Scores}] :
                        n \in 0..Min(MaxHits, limit)} :
        /\ \A i, j \in 1..Len(rs) : i # j => rs[i].id # rs[j].id
        /\ \A i \in 1..(Len(rs) - 1) : rs[i].relevance >= rs[i + 1].relevance}

\* [f"mock-chunk-{kind}-{i}" for i in range(limit)]; the scores are drawn at
\* random in the source, one score per call here
MockHits(kind, src, limit, rel) ==
    [i \in 1..limit |-> Hit(<<kind, i - 1>>, rel, src)]

\* bm25_search / vector_search / graph_search: the first search; when it is
\* empty and documents exist the index is rebuilt and searched again; when
\* there is still nothing, limit placeholder hits
NoMatch(first, retry, doc_count) == Len(first) = 0 /\ (doc_count > 0 => Len(retry) = 0)

Call(op, arg) == [op |-> op, arg |-> arg]

Answer(results) == IF Len(results) = 0 THEN "empty" ELSE "hits"

\* the calls of a search that rebuilds whenever its first search is empty
SearchCallsAlwaysRebuild(first, retry, doc_count) ==
    IF Len(first) > 0 THEN <<Call("search", "hits")>>
    ELSE <<Call("search", "empty"),
           Call("count", IF doc_count > 0 THEN "some" ELSE "none"),
           Call("rebuild", "-"), Call("search", Answer(retry))>>

\* the calls one bm25_search / vector_search / graph_search makes, in
\* order: the search, the count of documents when it was empty, the
\* rebuild (index_all_documents, or build_graph_for_document over every
\* document) and the second search when documents exist
SearchCalls(first, retry, doc_count) ==
    IF Len(first) > 0 THEN <<Call("search", "hits")>>
    ELSE IF doc_count = 0
    THEN <<Call("search", "empty"), Call("count", "none")>>
    ELSE <<Call("search", "empty"), Call("count", "some"),
           Call("rebuild", "-"), Call("search", Answer(retry))>>

SearchWithRebuild(first, retry, doc_count, kind, src, limit, rel) ==
    LET results == IF Len(first) = 0 /\ doc_count > 0 THEN retry ELSE first
    IN IF Len(results) = 0 THEN MockHits(kind, src, limit, rel) ELSE results

RECURSIVE InsertDescAfter(_, _)
\* an insertion that puts x behind the elements of equal relevance
InsertDescAfter(x, sorted) ==
    IF Len(sorted) = 0 THEN <<x>>
    ELSE IF sorted[1].relevance < x.relevance THEN <<x>> \o sorted
    ELSE <<sorted[1]>> \o InsertDescAfter(x, Tail(sorted))

RECURSIVE InsertDesc(_, _)
InsertDesc(x, sorted) ==
    IF Len(sorted) = 0 THEN <<x>>
    ELSE IF sorted[1].relevance <= x.relevance THEN <<x>> \o sorted
    ELSE <<sorted[1]>> \o InsertDesc(x, Tail(sorted))

RECURSIVE SortDesc(_)
\* list.sort(key=relevance, reverse=True): stable
SortDesc(rs) == IF Len(rs) = 0 THEN <<>> ELSE InsertDesc(rs[1], SortDesc(Tail(rs)))

IndexOfId(rs, id) == CHOOSE i \in 1..Len(rs) : rs[i].id = id

RECURSIVE FuseVector(_, _)
\* hybrid_search lines 146-154: the vector hits folded into the combined
\* results (a dict keyed by id, in insertion order)
FuseVector(combined, vector_results) ==
    IF Len(vector_results) = 0 THEN combined
    ELSE LET r == vector_results[1]
             nx == IF r.id \in Ids(combined)
                   THEN LET i == IndexOfId(combined, r.id)
                        IN [combined EXCEPT
                              ![i].relevance = (combined[i].relevance + r.relevance) \div 2,
                              ![i].sources = "hybrid"]
                   ELSE Append(combined, r)
         IN FuseVector(nx, Tail(vector_results))

\* hybrid_search lines 138-161 (the bm25 hits have distinct ids, so the
\* dict built from them is the list itself)
Fuse(bm25_results, vector_results, limit) ==
    Take(SortDesc(FuseVector(bm25_results, vector_results)), limit)

RECURSIVE MergeGraph(_, _)
\* retrieve_context lines 55-59
MergeGraph(results, graph_results) ==
    IF Len(graph_results) = 0 THEN results
    ELSE MergeGraph(IF graph_results[1].id \in Ids(results) THEN results
                    ELSE Append(results, graph_results[1]),
                    Tail(graph_results))

\* _mock_retrieve: rows of document_chunks if there are any, otherwise
\* limit placeholders
mock_retrieve(limit, db_chunks, rel) ==
    IF Min(db_chunks, limit) > 0
    THEN [i \in 1..Min(db_chunks, limit) |-> Hit(<<"chunk", i>>, rel, "database")]
    ELSE MockHits("mock-chunk", "mock", limit, rel)

\* retrieve_context lines 70-71 without the truncation
SortOnly(results, limit) == SortDesc(results)

\* retrieve_context lines 70-71
SortAndTruncate(results, limit) == Take(SortDesc(results), limit)

\* the selections a reranker can return: at most limit of the candidates,
\* each once, in the order it ranks them
Rerankings(n, limit) ==
    {sel \in UNION {[1..k -> 1..n] : k \in 0..Min(limit, n)} :
        \A i, j \in 1..Len(sel) : i # j => sel[i] # sel[j]}

\* reranker.rerank: the candidates it selected, tagged reranked; a failure
\* of its scoring capability is recovered inside and gives no output
rerank(results, limit, scoring, sel) ==
    IF scoring = "fails" THEN <<>>
    ELSE [i \in 1..Len(sel) |-> [results[sel[i]] EXCEPT !.source = "reranked"]]

\* neural_rerank lines 354-360 without the sort
FallbackUnsorted(results, limit) == Take(results, limit)

\* neural_rerank lines 354-360
Fallback(results, limit) == Take(SortDesc(results), limit)

\* neural_rerank lines 348-362
neural_rerank(results, limit, scoring, sel) ==
    LET reranked_results == rerank(results, limit, scoring, sel)
    IN IF Len(reranked_results) = 0 THEN Fallback(results, limit) ELSE reranked_results

InitRetr ==
    /\ IdleIngest /\ InitIdleStream /\ InitIdleChk /\ InitIdleChat
    /\ retr \in {[pc |-> "start", limit |-> l, use_hybrid |-> h, use_graph |-> g,
                  use_reranking |-> r, doc_count |-> dc, db_chunks |-> ch,
                  bm25_results |-> <<>>, vector_results |-> <<>>, graph_results |-> <<>>,
                  results |-> <<>>, reranker |-> "unused", result |-> <<>>,
                  calls |-> <<>>,      \* what the search that just returned called
                  answered |-> {},     \* the searches that returned
                  no_match |-> {},     \* those of them whose index found nothing
                  failed |-> {}] :     \* the searches that raised
                    l \in Limits, h \in BOOLEAN, g \in BOOLEAN, r \in BOOLEAN,
                    dc \in 0..1, ch \in 0..2}
    \* chunk rows belong to documents
    /\ retr.doc_count = 0 => retr.db_chunks = 0

UnchangedOthers == UNCHANGED <<documents, document_chunks, tasks, stream, chk, chat>>

\* where retrieve_context goes after the hybrid part
AfterHybrid == IF retr.use_graph THEN "graph" ELSE "final"

\* retrieve_context lines 37-45: the empty corpus is answered by
\* _mock_retrieve
RetrieveStart(rel) ==
    /\ retr.pc = "start"
    /\ IF retr.doc_count = 0
       THEN retr' = [retr EXCEPT !.pc = "done",
                                 !.result = mock_retrieve(retr.limit, retr.db_chunks, rel)]
       ELSE retr' = [retr EXCEPT !.pc = IF retr.use_hybrid THEN "bm25" ELSE AfterHybrid]
    /\ UnchangedOthers

\* hybrid_search line 133: bm25_search with limit * 2
Bm25Search(first, retry, rel, doc_count) ==
    /\ retr.pc = "bm25"
    /\ retr' = [retr EXCEPT !.pc = "vector",
                            !.answered = @ \cup {"bm25"},
                            !.calls = SearchCalls(first, retry, doc_count),
                            !.no_match = IF NoMatch(first, retry, doc_count)
                                         THEN @ \cup {"bm25"} ELSE @,
                            !.bm25_results = SearchWithRebuild(first, retry, doc_count,
                                                 "mock-chunk-bm25", "bm25", retr.limit * 2, rel)]
    /\ UnchangedOthers

\* hybrid_search lines 136-161 and retrieve_context line 48
VectorSearch(first, retry, rel, doc_count) ==
    /\ retr.pc = "vector"
    /\ LET vector_results == SearchWithRebuild(first, retry, doc_count,
                                 "mock-chunk-vector", "vector", retr.limit * 2, rel)
       IN retr' = [retr EXCEPT !.pc = "fused",
                               !.answered = @ \cup {"vector"},
                               !.calls = SearchCalls(first, retry, doc_count),
                               !.no_match = IF NoMatch(first, retry, doc_count)
                                            THEN @ \cup {"vector"} ELSE @,
                               !.vector_results = vector_results,
                               !.results = Fuse(retr.bm25_results, vector_results,
                                                retr.limit * 2)]
    /\ UnchangedOthers

\* hybrid_search has returned: its locals are gone
HybridReturn ==
    /\ retr.pc = "fused"
    /\ retr' = [retr EXCEPT !.pc = AfterHybrid, !.bm25_results = <<>>,
                            !.vector_results = <<>>, !.calls = <<>>]
    /\ UnchangedOthers

\* retrieve_context lines 50-59
GraphSearch(first, retry, rel, doc_count) ==
    /\ retr.pc = "graph"
    /\ LET graph_results == SearchWithRebuild(first, retry, doc_count,
                                "mock-chunk-graph", "graph", retr.limit, rel)
       IN retr' = [retr EXCEPT !.pc = "final",
                               !.answered = @ \cup {"graph"},
                               !.calls = SearchCalls(first, retry, doc_count),
                               !.no_match = IF NoMatch(first, retry, doc_count)
                                            THEN @ \cup {"graph"} ELSE @,
                               !.graph_results = graph_results,
                               !.results = MergeGraph(retr.results, graph_results)]
    /\ UnchangedOthers

\* an index search (or the rebuild, or the query embedding) raises: nothing
\* on the way up through hybrid_search and retrieve_context catches it
SearchRaises ==
    /\ retr.pc \in {"bm25", "vector", "graph"}
    /\ retr' = [retr EXCEPT !.pc = "raised", !.failed = {retr.pc}]
    /\ UnchangedOthers

\* retrieve_context lines 62-63
FinalMock(rel) ==
    /\ retr.pc = "final"
    /\ Len(retr.results) = 0
    /\ retr' = [retr EXCEPT !.pc = "done", !.calls = <<>>,
                            !.result = mock_retrieve(retr.limit, retr.db_chunks, rel)]
    /\ UnchangedOthers

\* retrieve_context lines 66-67
FinalRerank(scoring, sel) ==
    /\ retr.pc = "final"
    /\ Len(retr.results) > 0
    /\ retr.use_reranking
    /\ sel \in Rerankings(Len(retr.results), retr.limit)
    /\ scoring = "fails" => Len(sel) = 0
    /\ retr' = [retr EXCEPT !.pc = "done", !.calls = <<>>,
                            !.reranker = IF scoring = "fails" THEN "scoring_failed"
                                         ELSE IF Len(sel) = 0 THEN "empty" ELSE "ranked",
                            !.result = neural_rerank(retr.results, retr.limit, scoring, sel)]
    /\ UnchangedOthers

\* retrieve_context lines 68-71
FinalSort ==
    /\ retr.pc = "final"
    /\ Len(retr.results) > 0
    /\ ~retr.use_reranking
    /\ retr' = [retr EXCEPT !.pc = "done", !.calls = <<>>,
                            !.result = SortAndTruncate(retr.results, retr.limit)]
    /\ UnchangedOthers

\* the inputs of one search call: the first answer, the answer after the
\* rebuild (read only when the first is empty and documents exist), the
\* placeholder score (read only when nothing was found) and the count of
\* documents the search reads at its own line (read only when the first
\* answer is empty; documents can have been deleted since retrieve_context
\* counted them)
SearchInputs(src, limit) ==
    {<<first, retry, rel, dc>> :
        first \in IndexAnswers(src, limit) \ {<<>>}, retry \in {<<>>}, rel \in {12},
        dc \in {1}}
    \cup {<<first, retry, rel, dc>> :
        first \in {<<>>}, retry \in IndexAnswers(src, limit) \ {<<>>}, rel \in {12},
        dc \in {1}}
    \cup {<<first, retry, rel, dc>> :
        first \in {<<>>}, retry \in {<<>>}, rel \in Scores, dc \in {0, 1}}

Start == \E rel \in Scores : RetrieveStart(rel)
Bm25 == /\ retr.pc = "bm25"
        /\ \E in \in SearchInputs("bm25", retr.limit * 2) : Bm25Search(in[1], in[2], in[3], in[4])
Vector == /\ retr.pc = "vector"
          /\ \E in \in SearchInputs("vector", retr.limit * 2) :
                VectorSearch(in[1], in[2], in[3], in[4])
Graph == /\ retr.pc = "graph"
         /\ \E in \in SearchInputs("graph", retr.limit) : GraphSearch(in[1], in[2], in[3], in[4])
Mock == \E rel \in Scores : FinalMock(rel)
Rerank == /\ retr.pc = "final"
          /\ \E scoring \in {"ok", "fails"} :
              \E sel \in Rerankings(Len(retr.results), retr.limit) : FinalRerank(scoring, sel)

NextRetr == Start \/ Bm25 \/ Vector \/ HybridReturn \/ Graph \/ SearchRaises
            \/ Mock \/ Rerank \/ FinalSort

SpecRetr == InitRetr /\ [][NextRetr]_vars

HitOf(rs, id) == rs[IndexOfId(rs, id)]

\* C2 (as claimed): in the list hybrid_search returns, no identity occurs
\* twice and none is missing unless the limit cut it; an identity both
\* searches returned carries the mean of the two scores and the source tag
\* hybrid; an identity only one search returned carries that search's score
\* and source tag
C2_FusionMeanAndTag ==
    retr.pc = "fused" =>
        LET b == retr.bm25_results
            v == retr.vector_results
            f == retr.results
        IN /\ \A i, j \in 1..Len(f) : i # j => f[i].id # f[j].id
           /\ Ids(f) \subseteq Ids(b) \cup Ids(v)
           /\ Cardinality(Ids(b) \cup Ids(v)) <= retr.limit * 2 => Ids(f) = Ids(b) \cup Ids(v)
           /\ \A i \in 1..Len(f) :
                IF f[i].id \in Ids(b) \cap Ids(v)
                THEN /\ 2 * f[i].relevance =
                            HitOf(b, f[i].id).relevance + HitOf(v, f[i].id).relevance
                     /\ f[i].source = "hybrid"
                ELSE IF f[i].id \in Ids(b)
                THEN /\ f[i].relevance = HitOf(b, f[i].id).relevance
                     /\ f[i].source = HitOf(b, f[i].id).source
                ELSE /\ f[i].relevance = HitOf(v, f[i].id).relevance
                     /\ f[i].source = HitOf(v, f[i].id).source

\* C3: retrieve_context returns at most limit results whatever the flags
\* and the answers of the indexes, and with no document it returns a list
\* (it does not raise)
C3_AtMostLimit ==
    /\ retr.pc = "done" => Len(retr.result) <= retr.limit
    /\ (retr.pc \notin {"off", "start"} /\ retr.doc_count = 0) => retr.pc = "done"

\* more candidates than limit were gathered and limit results came back
C3_Witness ==
    /\ retr.pc = "done"
    /\ retr.doc_count > 0
    /\ Len(retr.results) > retr.limit
    /\ Len(retr.result) = retr.limit

\* C4: when the reranker's scoring fails or it returns nothing, the call
\* still returns results: min(limit, candidates) of the candidates, each
\* unchanged and at most once, in descending order of their original
\* relevance, and no candidate left out outranks one that was kept
C4_RerankFailureFallsBack ==
    (retr.pc = "done" /\ retr.reranker \in {"scoring_failed", "empty"}) =>
        LET c == retr.results
            r == retr.result
        IN /\ Len(r) = Min(retr.limit, Len(c))
           /\ Len(r) > 0
           /\ \A i \in 1..Len(r) : \E k \in 1..Len(c) : r[i] = c[k]
           /\ \A i, j \in 1..Len(r) : i # j => r[i].id # r[j].id
           /\ \A i \in 1..(Len(r) - 1) : r[i].relevance >= r[i + 1].relevance
           /\ \A k \in 1..Len(c) :
                c[k].id \notin Ids(r) => \A i \in 1..Len(r) : r[i].relevance >= c[k].relevance

\* the scoring failed on candidates that were out of order and more than
\* limit
C4_Witness ==
    /\ retr.pc = "done"
    /\ retr.reranker = "scoring_failed"
    /\ Len(retr.results) > retr.limit
    /\ \E i, j \in 1..Len(retr.results) :
            i < j /\ retr.results[i].relevance < retr.results[j].relevance
    /\ Len(retr.result) = retr.limit

IsRebuild(c) == c.op = "rebuild"

IsSearch(c) == c.op = "search"

\* C22: within one search call (retr.calls holds the calls of the search
\* that has just returned), when the first search returns nothing and
\* a document exists, the index is rebuilt once and searched once more
\* after the rebuild; when the first search returns hits, or no document
\* exists, there is one search and no rebuild
C22_RebuildOnceRetryOnce ==
    (retr.pc \in {"vector", "fused", "final"} /\ Len(retr.calls) > 0) =>
        /\ IsSearch(retr.calls[1])
        /\ IF /\ retr.calls[1].arg = "empty"
              /\ Len(retr.calls) > 1
              /\ retr.calls[2] = Call("count", "some")
           THEN /\ Len(retr.calls) = 4
                /\ IsRebuild(retr.calls[3])
                /\ IsSearch(retr.calls[4])
           ELSE /\ Len(SelectSeq(retr.calls, IsRebuild)) = 0
                /\ Len(SelectSeq(retr.calls, IsSearch)) = 1

\* a graph search that found nothing, rebuilt the graph and found hits on
\* the second search
C22_Witness ==
    /\ retr.pc = "final"
    /\ "graph" \in retr.answered
    /\ retr.calls = <<Call("search", "empty"), Call("count", "some"),
                      Call("rebuild", "-"), Call("search", "hits")>>
    /\ Len(retr.graph_results) > 0

\* the place of a hit in discovery order: lexical, vector-only, graph-only
DiscoveryRank(hit) ==
    IF hit.source = "bm25" THEN 1 ELSE IF hit.source = "vector" THEN 2 ELSE 3

EnabledIndexes ==
    (IF retr.use_hybrid THEN {"bm25", "vector"} ELSE {})
    \cup (IF retr.use_graph THEN {"graph"} ELSE {})

\* C15: the failure of one index search is confined to that search; the
\* call fails as a whole only when every index it asks for was queried and
\* none of them worked
C15_SearchFailureConfined ==
    retr.pc = "raised" => (retr.answered = {} /\ retr.failed = EnabledIndexes)

IsCorpusChunk(hit) == hit.id[1] = "chunk"

\* C16: a search whose index found nothing, also after the rebuild and
\* retry, returns the empty sequence, so every hit is a chunk of the corpus
C16_NoMatchReturnsEmpty ==
    /\ (retr.pc = "vector" /\ "bm25" \in retr.no_match) => retr.bm25_results = <<>>
    /\ (retr.pc = "fused" /\ "vector" \in retr.no_match) => retr.vector_results = <<>>
    /\ (retr.pc = "final" /\ "graph" \in retr.no_match) => retr.graph_results = <<>>
    /\ retr.pc \in {"vector", "fused", "graph", "final"} =>
          \A i \in 1..Len(retr.results) : IsCorpusChunk(retr.results[i])

\* ------------------------------------------------------------------------
\* chunk_text applied to bounded inputs
\* ------------------------------------------------------------------------
ChunkPieces == {<<"a">>, <<" ">>, <<".">>, <<"\n">>, NL2, <<"#", " ", "a">>, <<"=">>,
                PageMark, <<"1", " ", "-", "-", "-">>}

RECURSIVE PieceTexts(_)
\* the texts made of at most n pieces
PieceTexts(n) ==
    IF n = 0 THEN {<<>>}
    ELSE LET shorter == PieceTexts(n - 1)
         IN shorter \cup {t \o q : t \in shorter, q \in ChunkPieces}

ChunkDocTypes == {"md", "pdf", "txt"}
ChunkSizes == {2, 5}
Overlaps == {0, 5, 10}

InitChunk ==
    /\ IdleIngest /\ InitIdleStream /\ InitIdleRetr /\ InitIdleChat
    /\ chk \in [pc : {"input"}, text : PieceTexts(MaxPieces), doc_type : ChunkDocTypes,
                chunk_size : ChunkSizes, overlap : Overlaps, chunks : {<<>>}]

ChunkText ==
    /\ chk.pc = "input"
    /\ chk' = [chk EXCEPT !.pc = "done",
                          !.chunks = chunk_text(chk.text, chk.doc_type, chk.chunk_size,
                                                chk.overlap)]
    /\ UNCHANGED <<documents, document_chunks, tasks, stream, retr, chat>>

NextChunk == ChunkText

SpecChunk == InitChunk /\ [][NextChunk]_vars

\* C10: a text no longer than max_size is returned as the single chunk
\* [text], for every document type and every max_size/overlap
C10_ShortTextSingleChunk ==
    (chk.pc = "done" /\ Len(chk.text) <= chk.chunk_size) => chk.chunks = <<chk.text>>

\* a short text that holds a paragraph break came back whole
C10_Witness ==
    /\ chk.pc = "done"
    /\ Len(chk.text) <= chk.chunk_size
    /\ Contains(chk.text, NL2)
    /\ chk.chunks = <<chk.text>>

NotSpace(c) == ~IsSpace(c)

\* the characters a text carries, whitespace aside
Carried(s) == SelectSeq(s, NotSpace)

\* C11: no chunk returned by chunk_text is empty, and the chunks carry the
\* units of the text in reading order: without overlap seeds, the chunks
\* read one after the other carry exactly what the text carries.  Stated
\* for non-empty texts (the empty text comes back as the one chunk "")
C11_NonEmptyInOrder ==
    (chk.pc = "done" /\ Len(chk.text) > 0) =>
        /\ \A i \in 1..Len(chk.chunks) : Len(chk.chunks[i]) > 0
        /\ chk.overlap = 0 => Carried(Concat(chk.chunks)) = Carried(chk.text)

\* C12: every chunk returned by chunk_text is at most chunk_size long
C12_ChunkWithinSize ==
    chk.pc = "done" => \A i \in 1..Len(chk.chunks) : Len(chk.chunks[i]) <= chk.chunk_size

RECURSIVE HeadingCount(_, _)
RECURSIVE HeadingCountAt(_, _, _)
\* the number of heading matches in s from position p on
HeadingCount(s, p) ==
    IF p > Len(s) THEN 0 ELSE HeadingCountAt(s, p, MatchHeading(s, p))

HeadingCountAt(s, p, e) ==
    IF e = 0 THEN HeadingCount(s, p + 1) ELSE 1 + HeadingCount(s, e + 1)

RECURSIVE HeadingsIn(_)
HeadingsIn(chunks) ==
    IF Len(chunks) = 0 THEN 0 ELSE HeadingCount(chunks[1], 1) + HeadingsIn(Tail(chunks))

EndsWithHeading(c) == \E p \in 1..Len(c) : MatchHeading(c, p) = Len(c)

\* C23: for a markdown text longer than chunk_size, split without overlap:
\* every heading of the text occurs once in the chunks, the chunks read one
\* after the other carry the text in document order, and a heading is not
\* cut off from the content that follows it (a chunk ends with a heading
\* only when the next chunk would not fit with it)
C23_HeadingWithContent ==
    (/\ chk.pc = "done" /\ chk.doc_type = "md"
     /\ Len(chk.text) > chk.chunk_size /\ chk.overlap = 0) =>
        /\ HeadingsIn(chk.chunks) = HeadingCount(chk.text, 1)
        /\ Carried(Concat(chk.chunks)) = Carried(chk.text)
        /\ \A i \in 1..(Len(chk.chunks) - 1) :
              EndsWithHeading(chk.chunks[i]) =>
                  Len(chk.chunks[i]) + Len(chk.chunks[i + 1]) > chk.chunk_size

\* ------------------------------------------------------------------------
\* Chat exchanges (routes/chats.py create_message and websocket_endpoint,
\* chat_engine.py process_message)

ChatIds == {"c1", "c2"}

\* history[-10:]
HistoryLimit == 10

\* rows of chat_messages after which no further user message is accepted
MaxStored == 12
\* messages received over websocket connections
MaxWsMessages == 2

\* a row of chat_messages; the content is the serial number of the text
ChatMessage(chat_id, role, content) ==
    [chat_id |-> chat_id, role |-> role, content |-> content]

\* db.query(ChatMessage).filter(ChatMessage.chat_id == chat_id)
\*   .order_by(ChatMessage.created_at).all()
history(rows, chat_id) == SelectSeq(rows, LAMBDA r : r.chat_id = chat_id)

HistoryWindowAll(hist) == hist

\* history[-10:]
HistoryWindow(hist) == LastN(hist, HistoryLimit)

\* {"role": msg.role.value, "content": msg.content} for each msg
Formatted(msgs) ==
    [i \in 1..Len(msgs) |-> [role |-> msgs[i].role, content |-> msgs[i].content]]

\* the list process_message hands to the connector: the window of the
\* stored history, then the user message once more
formatted_history(hist, message) ==
    Append(Formatted(HistoryWindow(hist)), [role |-> "user", content |-> message])

IdleRequest ==
    [pc |-> "idle", chat_id |-> "c1", message |-> 0, history |-> <<>>,
     formatted_history |-> <<>>]

InitChat ==
    /\ IdleIngest /\ InitIdleStream /\ InitIdleRetr /\ InitIdleChk
    /\ chat = [pc |-> "on",
               chat_messages |-> <<>>,         \* the table, in created_at order
               request |-> IdleRequest,        \* the create_message request in progress
               ws |-> [pc |-> "closed",        \* the websocket connection
                       chat_id |-> "c1",
                       received |-> <<>>,      \* the messages received over it
                       sent |-> <<>>]]         \* the events sent to the caller

UnchangedNotChat == UNCHANGED <<documents, document_chunks, tasks, stream, retr, chk>>

\* create_message up to the first suspension of process_message: the user
\* message is stored, process_message reads the history of the chat and
\* awaits retrieve_context
create_message(chat_id) ==
    /\ chat.request.pc = "idle"
    /\ Len(chat.chat_messages) < MaxStored
    /\ chat' = [chat EXCEPT
            !.chat_messages =
                Append(@, ChatMessage(chat_id, "user", Len(chat.chat_messages) + 1)),
            !.request =
                [pc |-> "retrieving", chat_id |-> chat_id,
                 message |-> Len(chat.chat_messages) + 1,
                 history |-> history(Append(chat.chat_messages,
                                ChatMessage(chat_id, "user", Len(chat.chat_messages) + 1)),
                                     chat_id),
                 formatted_history |-> <<>>]]
    /\ UnchangedNotChat

\* process_message after retrieve_context: the history is formatted and
\* handed to the connector
process_message ==
    /\ chat.request.pc = "retrieving"
    /\ chat' = [chat EXCEPT
            !.request.pc = "generating",
            !.request.formatted_history =
                formatted_history(chat.request.history, chat.request.message)]
    /\ UnchangedNotChat

\* create_message after process_message returned: the assistant message is
\* stored
StoreAssistant ==
    /\ chat.request.pc = "generating"
    /\ chat' = [chat EXCEPT
            !.chat_messages =
                Append(@, ChatMessage(chat.request.chat_id, "assistant",
                                      Len(chat.chat_messages) + 1)),
            !.request = IdleRequest]
    /\ UnchangedNotChat

\* websocket_endpoint: websocket.accept()
WebsocketAccept(chat_id) ==
    /\ chat.ws.pc \in {"closed", "crashed"}
    /\ Len(chat.ws.received) < MaxWsMessages
    /\ chat' = [chat EXCEPT !.ws.pc = "open", !.ws.chat_id = chat_id]
    /\ UnchangedNotChat

\* websocket_endpoint, one turn of the loop: the message is received and
\* stored; process_message(...) is called without await, so `async for`
\* iterates a coroutine and raises TypeError before anything is sent.  The
\* exception is not WebSocketDisconnect and leaves the endpoint.
WebsocketReceive ==
    /\ chat.ws.pc = "open"
    /\ Len(chat.ws.received) < MaxWsMessages
    /\ Len(chat.chat_messages) < MaxStored
    /\ chat' = [chat EXCEPT
            !.chat_messages =
                Append(@, ChatMessage(chat.ws.chat_id, "user",
                                      Len(chat.chat_messages) + 1)),
            !.ws.received = Append(@, Len(chat.chat_messages) + 1),
            !.ws.pc = "crashed"]
    /\ UnchangedNotChat

\* websocket_endpoint: receive_text raises WebSocketDisconnect, which the
\* endpoint swallows
WebSocketDisconnect ==
    /\ chat.ws.pc = "open"
    /\ chat' = [chat EXCEPT !.ws.pc = "closed"]
    /\ UnchangedNotChat

CreateMessage == \E c \in ChatIds : create_message(c)
Accept == \E c \in ChatIds : WebsocketAccept(c)

NextChat ==
    \/ CreateMessage
    \/ process_message
    \/ StoreAssistant
    \/ Accept
    \/ WebsocketReceive
    \/ WebSocketDisconnect

SpecChat == InitChat /\ [][NextChat]_vars

\* the events sent for one received message
EventsFor(sent, m) == SelectSeq(sent, LAMBDA e : e.message = m)

IsComplete(e) == e.type = "complete"

\* C13: for every message the endpoint received, the caller is sent exactly
\* one event of type complete, and it is the last event of that response
C13_OneTerminalComplete ==
    chat.pc = "on" =>
        \A i \in 1..Len(chat.ws.received) :
            /\ Len(SelectSeq(EventsFor(chat.ws.sent, chat.ws.received[i]), IsComplete)) = 1
            /\ IsComplete(EventsFor(chat.ws.sent, chat.ws.received[i])
                            [Len(EventsFor(chat.ws.sent, chat.ws.received[i]))])

\* the assembler itself, iterated to its end, yields one complete event, last
StreamEndsWithOneComplete ==
    stream.pc = "complete" =>
        /\ Len(SelectSeq(stream.events, IsComplete)) = 1
        /\ IsComplete(stream.events[Len(stream.events)])

\* C14: the list handed to the connector is the user message preceded by the
\* most recent stored messages of the chat, at most HistoryLimit of them, in
\* the order they were stored
C14_HistoryBounded ==
    (chat.pc = "on" /\ chat.request.pc = "generating") =>
        LET h == chat.request.history
            p == chat.request.formatted_history
            k == Len(chat.request.formatted_history) - 1
        IN /\ k <= HistoryLimit /\ k <= Len(h)
           /\ k = HistoryLimit \/ k = Len(h)
           /\ \A i \in 1..k :
                 p[i] = [role |-> h[Len(h) - k + i].role,
                         content |-> h[Len(h) - k + i].content]
           /\ \A i \in 1..k : \A j \in 1..k : i < j => p[i].content < p[j].content
           /\ \A i \in 1..Len(h) : h[i].chat_id = chat.request.chat_id
           /\ Len(h) <= Len(history(chat.chat_messages, chat.request.chat_id))
           /\ h = SubSeq(history(chat.chat_messages, chat.request.chat_id), 1, Len(h))
           /\ p[k + 1] = [role |-> "user", content |-> chat.request.message]

\* C30: the list handed to the connector in a chat exchange holds the
\* current user message once, as its last element
C30_UserMessageOnce ==
    (chat.pc = "on" /\ chat.request.pc = "generating") =>
        /\ Len(chat.request.formatted_history) > 0
        /\ chat.request.formatted_history[Len(chat.request.formatted_history)] =
                [role |-> "user", content |-> chat.request.message]
        /\ Cardinality({i \in 1..Len(chat.request.formatted_history) :
                chat.request.formatted_history[i].content = chat.request.message}) = 1

\* a chat longer than HistoryLimit, interleaved with another chat, is being
\* answered
C14_Witness ==
    /\ chat.pc = "on" /\ chat.request.pc = "generating"
    /\ Len(chat.request.history) > HistoryLimit
    /\ Len(chat.chat_messages) > Len(chat.request.history)
    /\ Len(chat.request.formatted_history) = HistoryLimit + 1

====
